---- MODULE Spec2Model ----
(***************************************************************************)
(* Canvas-mutation replay plugin of the session-recording player           *)
(* (frontend/src/scenes/session-recordings/player/rrweb/canvas/            *)
(* canvas-plugin.ts).                                                      *)
(*                                                                         *)
(* One plugin instance is modelled: its closure state (canvases,           *)
(* containers, canvasEventMap, preloadBuffer, nextPreloadIndex), the async *)
(* calls that are suspended at an await (preload calls, processMutation    *)
(* calls), and the collaborators it reads (the mirror, the playback        *)
(* driver).  Every await is a point where any other pending continuation   *)
(* or any other call into the plugin may run first.                        *)
(*                                                                         *)
(* An event is identified by its position in the recorded stream (the      *)
(* source keys its maps by object identity).  Indices into                 *)
(* canvasMutationEvents are 0-based as in the source.                      *)
(*                                                                         *)
(* The second part models the notebook logic                               *)
(* (frontend/src/scenes/notebooks/Notebook/notebookLogic.ts): the local    *)
(* content, the debounced save, the loader requests in flight and          *)
(* runWhenEditorIsReady.  The two parts share no state: a specification    *)
(* of one part keeps the other part as it was constructed.                 *)
(***************************************************************************)
EXTENDS Integers, Sequences, FiniteSets, TLC

VARIABLES
    events,                 \* the recorded stream handed to the plugin
    canvasMutationEvents,   \* positions of the canvas mutations, in order
    canvases,               \* id -> off-screen target (width, height, content)
    containers,             \* id -> placeholder img (src, parent)
    canvasEventMap,         \* events whose resolved mutation is cached
    preloadBuffer,          \* events being preloaded
    nextPreloadIndex,       \* Null or <<n>>
    preloads,               \* preload calls suspended at the await of line 124
    applies,                \* processMutation calls suspended in canvasMutation
                            \* in the order they were started
    pos,                    \* playback driver: stream position delivered next
    syncTo,                 \* playback driver: events up to here are isSync
    mutations,              \* number of processMutation calls so far
    calls,                  \* number of preload calls made after construction
    decodeStarts,           \* event -> decodes of its references started
    missed,                 \* processMutation calls that found no source node
    ignored,                \* a canvas mutation came with isSync false
    rejections,             \* async calls that ended by throwing
    reported,               \* errors handed to the errorHandler
    session2,               \* the state of a second instance of the plugin
    resolved,               \* events that left the window on resolving
    \* notebookLogic
    isLocalOnly,            \* props.shortId is the scratchpad's
    editor,                 \* values.editor is set
    notebook,               \* Null or <<[content |-> value]>>
    server,                 \* the content value the server stores
    localContent,           \* Null or <<content object>>
    notebookLoading,        \* a load or a save of the loader is under way
    conflictWarningVisible,
    debounce,               \* a setLocalContent listener waits its delay
    saves,                  \* saveNotebook requests in flight, oldest first
    loads,                  \* loadNotebook requests in flight
    wait,                   \* the call of runWhenEditorIsReady
    edits,                  \* editor updates made so far
    failures,               \* saveNotebookFailure actions dispatched
    conflicted,             \* a save met a conflict since the last load
    refused                 \* save requests that did not succeed

canvasVars == <<events, canvasMutationEvents, canvases, containers,
                canvasEventMap, preloadBuffer, nextPreloadIndex, preloads,
                applies, pos, syncTo, mutations, calls, decodeStarts,
                missed, ignored, rejections, reported, session2, resolved>>

notebookVars == <<isLocalOnly, editor, notebook, server, localContent,
                  notebookLoading, conflictWarningVisible, debounce, saves,
                  loads, wait, edits, failures, conflicted, refused>>

vars == <<canvasVars, notebookVars>>

(***************************************************************************)
(* Bounds                                                                  *)
(***************************************************************************)
\* Capacity of the preload window.  The source sets 30; the model keeps the
\* window small so that a full window is reached.
PRELOAD_BUFFER_SIZE == 2
\* preload calls made after the one of the construction
MaxCalls == 2
\* processMutation calls made by the handler
MaxMutations == 2
\* editor updates made by the user of a notebook
MaxEdits == 2

CanvasIds == {1, 2}
Null == <<>>
Undefined == <<>>

Max(a, b) == IF a > b THEN a ELSE b
Min(a, b) == IF a < b THEN a ELSE b

(***************************************************************************)
(* Events                                                                  *)
(***************************************************************************)
\* A canvas mutation: args[c] is the kind of the arguments of draw call c:
\*   "plain"   only values that need no decoding
\*   "ref"     some argument is a serialized reference
\*   "badref"  some argument is a serialized reference whose payload cannot
\*             be decoded
\*   "bad"     plain values, but the call throws when it is replayed
\* batched = the payload has a commands list; otherwise it is one call.
CanvasEvent(id, batched, args) ==
    [type |-> "IncrementalSnapshot", source |-> "CanvasMutation",
     id |-> id, batched |-> batched, args |-> args]
\* An incremental snapshot of another source, and an event of another type.
DomEvent ==
    [type |-> "IncrementalSnapshot", source |-> "Mutation",
     id |-> 1, batched |-> FALSE, args |-> <<>>]
MetaEvent ==
    [type |-> "Meta", source |-> "CanvasMutation",
     id |-> 1, batched |-> FALSE, args |-> <<>>]

\* a test of the type of the event only
isCanvasMutation_typeOnly(e) == e.type = "IncrementalSnapshot"

\* isCanvasMutation, lines 13-15
isCanvasMutation(e) ==
    e.type = "IncrementalSnapshot" /\ e.source = "CanvasMutation"

\* Array.prototype.filter, giving the positions of the kept elements
RECURSIVE FilterPositions(_, _)
FilterPositions(evs, i) ==
    IF i > Len(evs) THEN <<>>
    ELSE IF isCanvasMutation(evs[i])
         THEN <<i>> \o FilterPositions(evs, i + 1)
         ELSE FilterPositions(evs, i + 1)

\* Array.prototype.findIndex over the canvas events: 0-based, -1 if none
RECURSIVE FindIndexFrom(_, _, _, _)
FindIndexFrom(evs, cme, id, i) ==
    IF i >= Len(cme) THEN -1
    ELSE IF evs[cme[i + 1]].id = id THEN i
         ELSE FindIndexFrom(evs, cme, id, i + 1)

findEvent(evs, cme, target) == FindIndexFrom(evs, cme, target.id, 0)

\* Array.prototype.slice(start, end)
Slice(s, start, end) ==
    LET len == Len(s)
        k == IF start < 0 THEN Max(len + start, 0) ELSE Min(start, len)
        f == IF end < 0 THEN Max(len + end, 0) ELSE Min(end, len)
    IN  IF f <= k THEN <<>> ELSE SubSeq(s, k + 1, f)

HasRef(e) == \E c \in 1..Len(e.args) : e.args[c] \in {"ref", "badref"}
DecodeFails(e) == \E c \in 1..Len(e.args) : e.args[c] = "badref"

RemoveAt(s, k) == SubSeq(s, 1, k - 1) \o SubSeq(s, k + 1, Len(s))

Put(m, k, v) == [x \in (DOMAIN m) \cup {k} |-> IF x = k THEN v ELSE m[x]]

\* the canvas mutations among the events at stream positions from..to
CanvasEventsIn(from, to) ==
    {i \in from..to : i <= Len(events) /\ isCanvasMutation(events[i])}

\* 0-based index of stream position i in the canvas-event subsequence
RECURSIVE IndexOfFrom(_, _, _)
IndexOfFrom(cme, i, k) ==
    IF k >= Len(cme) THEN -1
    ELSE IF cme[k + 1] = i THEN k ELSE IndexOfFrom(cme, i, k + 1)
IndexOf(i) == IndexOfFrom(canvasMutationEvents, i, 0)

(***************************************************************************)
(* Scheduling of the single execution context                              *)
(***************************************************************************)
\* The playback driver delivers the events of a fast-forward in one
\* synchronous loop: a suspended async call is resumed only when the loop
\* has returned.
FastForwarding == pos <= syncTo

\* canvasMutation, for draw call c of the event of apply a: the arguments
\* have to be decoded by the call itself when the mutation handed to it is
\* not the cached one and the call has a serialized reference
DecodesInApply(a, c) ==
    /\ c <= Len(events[a.ev].args)
    /\ ~a.cached
    /\ events[a.ev].args[c] \in {"ref", "badref"}

\* A suspended call that awaits no decode (nothing to decode, or the
\* return of canvasMutation) is resumed from the microtask queue, which is
\* emptied before the next task (a completed decode, a timer of the
\* driver, a call of the tree reconstruction) runs.
MicrotaskPending ==
    \/ \E p \in preloads : ~HasRef(events[p.cur])
    \/ \E k \in 1..Len(applies) :
          ~DecodesInApply(applies[k], applies[k].next)

\* a new task can start
TaskBoundary == ~FastForwarding /\ ~MicrotaskPending

\* the maps, the set and the cursor declared once for the module: the
\* cursor that another instance reads is the one this instance writes
OtherInstance_moduleCursor(other) ==
    [other EXCEPT !.nextPreloadIndex = nextPreloadIndex']

\* lines 24-29: the maps, the set and the cursor are created by each call
\* of CanvasReplayerPlugin, and the functions of an instance close over its
\* own: a call on this instance leaves those of another instance as they are
OtherInstance(other) == other

(***************************************************************************)
(* Preload scheduler and deserialization cache                             *)
(***************************************************************************)
\* preload, lines 108-112: the starting index.  currentEvent is Undefined
\* or <<i>>, the event at stream position i.
currentIndexOf(currentEvent) ==
    IF nextPreloadIndex # Null /\ nextPreloadIndex[1] # 0
    THEN nextPreloadIndex[1]
    ELSE IF currentEvent # Undefined
         THEN findEvent(events, canvasMutationEvents, events[currentEvent[1]])
         ELSE 0

\* a slice of the full capacity, whatever the window already holds
eventsToPreload_fullCapacity(currentIndex) ==
    Slice(canvasMutationEvents, currentIndex,
          currentIndex + PRELOAD_BUFFER_SIZE)

\* preload, lines 114-117
eventsToPreload(currentIndex) ==
    Slice(canvasMutationEvents, currentIndex,
          currentIndex + PRELOAD_BUFFER_SIZE - Cardinality(preloadBuffer))

\* a guard that looks at the window only
ShouldPreload_windowOnly(event, buf, cache) == event \notin buf

\* preload, line 122: is the event handed to the cache?
ShouldPreload(event, buf, cache) == event \notin buf /\ event \notin cache

\* the for loop of preload skipping the events its guard rejects
RECURSIVE NextToPreload(_, _, _)
NextToPreload(queue, buf, cache) ==
    IF queue = <<>> THEN <<>>
    ELSE IF ShouldPreload(Head(queue), buf, cache) THEN queue
         ELSE NextToPreload(Tail(queue), buf, cache)

\* deserializeAndPreloadCanvasEvents up to its await: the decodes of the
\* references of the event are started (the guard of line 34 is passed
\* when the event is not cached)
StartDecode(event, cache, starts) ==
    IF event \notin cache /\ HasRef(events[event])
    THEN [starts EXCEPT ![event] = @ + 1]
    ELSE starts

\* a cache that keeps the entry stored last only
StoreResolved_latestOnly(event, cache) ==
    IF HasRef(events[event]) THEN {event} ELSE cache

\* a cache that keeps the resolved mutation of every event
StoreResolved_always(event, cache) == cache \cup {event}

\* deserializeAndPreloadCanvasEvents after its await, lines 46-48 and 53-55:
\* the entry is stored only when an argument was changed by the decode
StoreResolved(event, cache) ==
    IF HasRef(events[event]) THEN cache \cup {event} ELSE cache

\* The for loop of preload, lines 121-127, run from the events still to
\* visit up to the next await (or to the end of the call).  `others` are
\* the other suspended calls, `from` is carried for the call (the index of
\* the event it was given when the cursor was unset, else 0).
RunPreload(others, queue, from, buf, cache) ==
    LET q == NextToPreload(queue, buf, cache)
    IN  IF q = <<>>
        THEN /\ preloads' = others
             /\ preloadBuffer' = buf
             /\ decodeStarts' = decodeStarts
        ELSE /\ preloads' = others \cup
                    {[cur |-> Head(q), rest |-> Tail(q), from |-> from]}
             /\ preloadBuffer' = buf \cup {Head(q)}
             /\ decodeStarts' = StartDecode(Head(q), cache, decodeStarts)

\* a cursor moved past the whole slice of the call
NextCursor_pastSlice(currentIndex) ==
    currentIndex + Max(1, Len(eventsToPreload(currentIndex)))

\* preload, line 119: the cursor the call leaves
NextCursor(currentIndex) == currentIndex + 1

\* preload(currentEvent), lines 107-128, up to its first await
preload(currentEvent) ==
    LET currentIndex == currentIndexOf(currentEvent)
        from == IF nextPreloadIndex = Null /\ currentEvent # Undefined
                THEN IndexOf(currentEvent[1]) ELSE 0
    IN  /\ nextPreloadIndex' = <<NextCursor(currentIndex)>>
        /\ RunPreload(preloads, eventsToPreload(currentIndex), from,
                      preloadBuffer, canvasEventMap)
        /\ canvasEventMap' = canvasEventMap

\* A call of preload after the construction (the scheduler's advance).
Advance(currentEvent) ==
    /\ FastForwarding \/ TaskBoundary
    /\ calls < MaxCalls
    /\ calls' = calls + 1
    /\ preload(currentEvent)
    /\ UNCHANGED <<events, canvasMutationEvents, canvases, containers,
                   applies, pos, syncTo, mutations, missed, ignored, rejections,
                   reported>>
    /\ session2' = OtherInstance(session2)
    /\ UNCHANGED resolved
    /\ UNCHANGED notebookVars

\* The decode awaited at line 124 completes: lines 46-55, then line 125 and
\* the rest of the loop.
PreloadResolved(p) ==
    /\ p \in preloads
    /\ IF HasRef(events[p.cur]) THEN TaskBoundary ELSE ~FastForwarding
    /\ ~DecodeFails(events[p.cur])
    /\ canvasEventMap' = StoreResolved(p.cur, canvasEventMap)
    /\ RunPreload(preloads \ {p}, p.rest, p.from,
                  preloadBuffer \ {p.cur}, canvasEventMap')
    /\ UNCHANGED <<events, canvasMutationEvents, canvases, containers,
                   nextPreloadIndex, applies, pos, syncTo, mutations,
                   calls, missed, ignored, rejections, reported>>
    /\ session2' = OtherInstance(session2)
    /\ resolved' = resolved \cup {p.cur}
    /\ UNCHANGED notebookVars

\* The decode awaited at line 124 fails: the await throws, nothing catches
\* it in deserializeAndPreloadCanvasEvents or in preload, so the call ends
\* there (line 125 is not reached).
PreloadRejected(p) ==
    /\ p \in preloads
    /\ TaskBoundary
    /\ DecodeFails(events[p.cur])
    /\ preloads' = preloads \ {p}
    /\ rejections' = rejections + 1
    /\ UNCHANGED <<events, canvasMutationEvents, canvases, containers,
                   canvasEventMap, preloadBuffer, nextPreloadIndex, applies,
                   pos, syncTo, mutations, calls, decodeStarts, missed, ignored,
                   reported>>
    /\ session2' = OtherInstance(session2)
    /\ UNCHANGED resolved
    /\ UNCHANGED notebookVars

(***************************************************************************)
(* Mutation applier                                                        *)
(***************************************************************************)
\* What replayer.getMirror().getNode(id) can return: no node, or a canvas
\* element with its layout size.
SourceNodes ==
    {[clientWidth |-> 1, clientHeight |-> 2],
     [clientWidth |-> 2, clientHeight |-> 1]}
Sources == {Null} \cup {<<n>> : n \in SourceNodes}

\* the drawing surface of a canvas element whose width or height has just
\* been assigned: assigning either attribute resets the bitmap
ResetBitmap == <<>>

\* lines 76-77 on the target
Resize(target, source) ==
    [target EXCEPT !.width = source.clientWidth,
                   !.height = source.clientHeight,
                   !.content = ResetBitmap]

\* cloneCanvas, lines 60-65: node.cloneNode() copies the element, not its
\* bitmap (the attributes it copies are overwritten by lines 76-77)
cloneCanvas(source) ==
    [width |-> source.clientWidth, height |-> source.clientHeight,
     content |-> <<>>, cloneOf |-> source]

\* a lookup that clones the source node on every apply
Target_alwaysCloned(id, source) == cloneCanvas(source[1])

\* processMutation, line 70, with the source node found: the registered
\* target of the canvas id, or a clone of the source node
Target(id, source) ==
    IF id \in DOMAIN canvases THEN canvases[id] ELSE cloneCanvas(source[1])

\* canvasMutation is handed canvasEventMap (line 84) and replays the cached
\* mutation of the event when there is one, else the recorded mutation
Precomputed(i) == i \in canvasEventMap

\* canvasMutation, for one draw call: does the replay of the call succeed?
\* (the cached mutation of an event has all its references decoded)
DrawSucceeds(a, c) ==
    \/ events[a.ev].args[c] \in {"plain", "ref"}
    \/ events[a.ev].args[c] = "badref" /\ a.cached

StartApplyDecode(a, c, starts) ==
    IF DecodesInApply(a, c) THEN [starts EXCEPT ![a.ev] = @ + 1] ELSE starts

\* processMutation(e, replayer), lines 67-92, up to the first await inside
\* canvasMutation.  i is the stream position of e, source the node the
\* mirror returns for its canvas id.
processMutation(i, source) ==
    LET id == events[i].id
        a == [ev |-> i, id |-> id,
              cached |-> Precomputed(i), next |-> 1,
              source |-> source, inWindow |-> i \in preloadBuffer]
    IN  IF id \notin DOMAIN canvases /\ source = Null
        THEN \* line 72: no target
             /\ missed' = missed + 1
             /\ UNCHANGED <<canvases, applies, decodeStarts, rejections>>
        ELSE IF source = Null
        THEN \* line 76 reads clientWidth of a missing node: TypeError
             /\ missed' = missed + 1
             /\ rejections' = rejections + 1
             /\ UNCHANGED <<canvases, applies, decodeStarts>>
        ELSE /\ canvases' =
                   Put(canvases, id,
                       Resize(Target(id, source), source[1]))
             /\ applies' = Append(applies, a)
             /\ decodeStarts' = StartApplyDecode(a, 1, decodeStarts)
             /\ UNCHANGED <<missed, rejections>>

\* a handler that resets the cursor whatever isSync is
handler_resetAlways(i, isSync, source) ==
    /\ nextPreloadIndex' = Null
    /\ IF isSync
       THEN /\ ignored' = ignored
            /\ IF isCanvasMutation(events[i])
               THEN processMutation(i, source)
               ELSE UNCHANGED <<canvases, applies, decodeStarts, missed,
                                rejections>>
       ELSE /\ ignored' = (ignored \/ isCanvasMutation(events[i]))
            /\ UNCHANGED <<canvases, applies, decodeStarts, missed,
                           rejections>>

\* a handler that applies whatever event it is given at a seek boundary
handler_anyEvent(i, isSync, source) ==
    IF isSync
    THEN /\ nextPreloadIndex' = Null
         /\ ignored' = ignored
         /\ processMutation(i, source)
    ELSE /\ ignored' = (ignored \/ isCanvasMutation(events[i]))
         /\ UNCHANGED <<nextPreloadIndex, canvases, applies, decodeStarts,
                        missed, rejections>>

\* handler(e, isSync, {replayer}), lines 146-156
handler(i, isSync, source) ==
    IF isSync
    THEN /\ nextPreloadIndex' = Null
         /\ ignored' = ignored
         /\ IF isCanvasMutation(events[i])
            THEN processMutation(i, source)
            ELSE UNCHANGED <<canvases, applies, decodeStarts, missed,
                             rejections>>
    ELSE /\ ignored' = (ignored \/ isCanvasMutation(events[i]))
         /\ UNCHANGED <<nextPreloadIndex, canvases, applies, decodeStarts,
                        missed, rejections>>

\* a replay that gives up the rest of the batch when a draw call fails
NextDrawCall_stopOnError(a) ==
    IF DrawSucceeds(a, a.next) THEN a.next + 1
    ELSE Len(events[a.ev].args) + 1

\* canvasMutation: the loop over the draw calls goes on to the next call
\* whether the call was replayed or its error was given to errorHandler
NextDrawCall(a) == a.next + 1

\* One draw call of canvasMutation: the await of draw call a.next settles.
\* The call is replayed on the target, or the decode or the call threw and
\* the errorHandler of lines 85-91 is given the error.  Then the loop goes
\* on to the next draw call.
ApplyDrawCall(k) ==
    /\ ~FastForwarding
    /\ k \in 1..Len(applies)
    /\ LET a == applies[k]
       IN  /\ a.next <= Len(events[a.ev].args)
           /\ DecodesInApply(a, a.next) => TaskBoundary
           /\ IF DrawSucceeds(a, a.next)
              THEN /\ canvases' = [canvases EXCEPT ![a.id].content =
                                       Append(@, <<a.ev, a.next>>)]
                   /\ UNCHANGED reported
              ELSE /\ reported' = reported + 1
                   /\ UNCHANGED canvases
           /\ applies' = [applies EXCEPT ![k].next = NextDrawCall(a)]
           /\ decodeStarts' = StartApplyDecode(a, NextDrawCall(a), decodeStarts)
    /\ UNCHANGED <<events, canvasMutationEvents, containers, canvasEventMap,
                   preloadBuffer, nextPreloadIndex, preloads, pos, syncTo,
                   mutations, calls, missed, ignored, rejections>>
    /\ session2' = OtherInstance(session2)
    /\ UNCHANGED resolved
    /\ UNCHANGED notebookVars

\* target.toDataURL()
toDataURL(target) == <<target>>

\* a publish that makes a placeholder when the canvas has none
Published_orCreated(id) ==
    Put(containers, id,
        [src |-> toDataURL(canvases[id]), parent |-> "none"])

\* processMutation, lines 94-97: the placeholders after the publish for
\* canvas id
Published(id) ==
    IF id \in DOMAIN containers
    THEN [containers EXCEPT ![id].src = toDataURL(canvases[id])]
    ELSE containers

\* processMutation after canvasMutation has returned, lines 94-97
ApplyPublish(k) ==
    /\ ~FastForwarding
    /\ k \in 1..Len(applies)
    /\ LET a == applies[k]
       IN  /\ a.next > Len(events[a.ev].args)
           /\ containers' = Published(a.id)
    /\ applies' = RemoveAt(applies, k)
    /\ UNCHANGED <<events, canvasMutationEvents, canvases, canvasEventMap,
                   preloadBuffer, nextPreloadIndex, preloads, pos, syncTo,
                   mutations, calls, decodeStarts, missed, ignored,
                   rejections, reported>>
    /\ session2' = OtherInstance(session2)
    /\ UNCHANGED resolved
    /\ UNCHANGED notebookVars

(***************************************************************************)
(* Placeholders                                                            *)
(***************************************************************************)
\* The nodes the tree reconstruction hands to onBuild: none, canvas
\* elements (a rebuilt tree has a new element for the same id), another
\* element.
BuiltNodes ==
    {[nodeName |-> "CANVAS", nodeType |-> 1, node |-> "canvasA"],
     [nodeName |-> "CANVAS", nodeType |-> 1, node |-> "canvasB"],
     [nodeName |-> "DIV", nodeType |-> 1, node |-> "div"]}
Nodes == {Null} \cup {<<n>> : n \in BuiltNodes}

\* the canvas ids of the recording
RecordedIds == {events[i].id : i \in CanvasEventsIn(1, Len(events))}

\* an onBuild that makes a new img on every call
Placeholder_alwaysNew(id) == [src |-> Null, parent |-> "none"]

\* onBuild, line 139: the placeholder of the id, or a new img element
Placeholder(id) ==
    IF id \in DOMAIN containers THEN containers[id]
    ELSE [src |-> Null, parent |-> "none"]

\* onBuild(node, {id}), lines 133-143
onBuild(node, id) ==
    IF node = Null
    THEN UNCHANGED containers
    ELSE IF node[1].nodeName = "CANVAS" /\ node[1].nodeType = 1
         THEN containers' =
                 Put(containers, id,
                     [Placeholder(id) EXCEPT !.parent = node[1].node])
         ELSE UNCHANGED containers

OnBuild(node, id) ==
    /\ FastForwarding \/ TaskBoundary
    /\ onBuild(node, id)
    /\ UNCHANGED <<events, canvasMutationEvents, canvases, canvasEventMap,
                   preloadBuffer, nextPreloadIndex, preloads, applies, pos,
                   syncTo, mutations, calls, decodeStarts, missed, ignored,
                   rejections, reported>>
    /\ session2' = OtherInstance(session2)
    /\ UNCHANGED resolved
    /\ UNCHANGED notebookVars

(***************************************************************************)
(* Playback driver                                                         *)
(***************************************************************************)
\* The driver hands the next event of the stream to the handler; the event
\* is isSync while the driver is fast-forwarding to the seek position.
Deliver(source) ==
    /\ pos <= Len(events)
    /\ FastForwarding \/ TaskBoundary
    /\ handler(pos, FastForwarding, source)
    /\ mutations' = IF FastForwarding /\ isCanvasMutation(events[pos])
                    THEN mutations + 1 ELSE mutations
    /\ pos' = pos + 1
    /\ UNCHANGED <<events, canvasMutationEvents, containers, canvasEventMap,
                   preloadBuffer, preloads, syncTo, calls, reported>>
    /\ session2' = OtherInstance(session2)
    /\ UNCHANGED resolved
    /\ UNCHANGED notebookVars

\* A seek to stream position p: a backward seek restarts the stream, a
\* forward seek goes on from the current position; the events up to p are
\* then delivered with isSync.
Seek(p) ==
    /\ TaskBoundary
    /\ LET from == IF p < pos - 1 THEN 1 ELSE pos
       IN  /\ pos' = from
           /\ mutations + Cardinality(CanvasEventsIn(from, p)) <= MaxMutations
    /\ syncTo' = p
    /\ UNCHANGED <<events, canvasMutationEvents, canvases, containers,
                   canvasEventMap, preloadBuffer, nextPreloadIndex, preloads,
                   applies, mutations, calls, decodeStarts, missed, ignored,
                   rejections,
                   reported>>
    /\ session2' = OtherInstance(session2)
    /\ UNCHANGED resolved
    /\ UNCHANGED notebookVars

(***************************************************************************)
(* Notebook logic                                                          *)
(***************************************************************************)
\* A content object is known by where it was made and by its value: the
\* editor makes a new object with a new value at every update
\* (editor.getJSON()), the server's content comes in a new object with
\* every response.  No object of the server is an object of the editor.
EditorContent(v) == [origin |-> "editor", value |-> v]
ServerContent(v) == [origin |-> "server", value |-> v]

\* selector content, lines 266-272 (a notebook not loaded has content [])
content ==
    IF localContent # Null THEN localContent[1]
    ELSE IF notebook # Null THEN ServerContent(notebook[1].content)
         ELSE ServerContent(0)

\* selector syncStatus, lines 286-306 (the notebook is not a template)
syncStatus ==
    IF isLocalOnly THEN "local"
    ELSE IF notebook = Null \/ localContent = Null THEN "synced"
    ELSE IF notebookLoading THEN "saving"
    ELSE "unsaved"

\* a save that clears the local content whenever it succeeds
ClearIfSent_always(sent) == Null

\* saveNotebook, lines 213-215: the local content after a save of `sent`
\* succeeded
ClearIfSent(sent) ==
    IF localContent # Null /\ sent = localContent[1]
    THEN Null ELSE localContent

\* runWhenEditorIsReady, lines 39-57 --------------------------------------
\* waitForEditor of the three callers: () => !!values.editor
waitForEditor == editor

\* the loop of lines 51-56 at one test of waitForEditor: the timeout is
\* cleared and fn is run when the editor is there, else the call waits
\* 10 ms more
PollEditor(w) ==
    IF waitForEditor
    THEN [w EXCEPT !.state = "returned",
                   !.timer = IF @ = "armed" THEN "cleared" ELSE @,
                   !.fnRuns = @ + 1]
    ELSE [w EXCEPT !.state = "polling"]

\* a call of an insert action: runWhenEditorIsReady up to its first await
\* (line 47 arms the timeout, then the loop)
Insert ==
    /\ wait.state = "none"
    /\ wait' = PollEditor([wait EXCEPT !.timer = "armed"])
    /\ UNCHANGED <<isLocalOnly, editor, notebook, server, localContent,
                   notebookLoading, conflictWarningVisible, debounce, saves,
                   loads, edits, failures, conflicted, refused>>
    /\ UNCHANGED canvasVars

\* the 10 ms timer of line 52 fires
Poll ==
    /\ wait.state = "polling"
    /\ wait' = PollEditor(wait)
    /\ UNCHANGED <<isLocalOnly, editor, notebook, server, localContent,
                   notebookLoading, conflictWarningVisible, debounce, saves,
                   loads, edits, failures, conflicted, refused>>
    /\ UNCHANGED canvasVars

\* the 2 s timer of lines 47-49 fires: its callback throws, in the timer's
\* own task (nothing of the call is touched)
TimeoutFires ==
    /\ wait.timer = "armed"
    /\ wait' = [wait EXCEPT !.timer = "fired", !.uncaught = @ + 1]
    /\ UNCHANGED <<isLocalOnly, editor, notebook, server, localContent,
                   notebookLoading, conflictWarningVisible, debounce, saves,
                   loads, edits, failures, conflicted, refused>>
    /\ UNCHANGED canvasVars

\* reducer editor, lines 112-117
SetEditor ==
    /\ ~editor
    /\ editor' = TRUE
    /\ UNCHANGED <<isLocalOnly, notebook, server, localContent,
                   notebookLoading, conflictWarningVisible, debounce, saves,
                   loads, wait, edits, failures, conflicted, refused>>
    /\ UNCHANGED canvasVars

\* loader notebook ----------------------------------------------------------
\* loadNotebook is dispatched, lines 170-198 (one load at a time)
LoadNotebook ==
    /\ loads = 0
    /\ loads' = 1
    /\ notebookLoading' = TRUE
    /\ UNCHANGED <<isLocalOnly, editor, notebook, server, localContent,
                   conflictWarningVisible, debounce, saves, wait, edits,
                   failures, conflicted, refused>>
    /\ UNCHANGED canvasVars

\* loadNotebookSuccess: the loader's reducers and the reducer of lines
\* 124-130
LoadNotebookSuccess ==
    /\ loads = 1
    /\ loads' = 0
    /\ notebook' = <<[content |-> server]>>
    /\ notebookLoading' = FALSE
    /\ conflictWarningVisible' = FALSE
    /\ conflicted' = FALSE
    /\ UNCHANGED <<isLocalOnly, editor, server, localContent, debounce,
                   saves, wait, edits, failures, refused>>
    /\ UNCHANGED canvasVars

\* listener onEditorUpdate, lines 415-422, with the reducer of
\* setLocalContent (lines 104-111); the dispatch restarts the delay of the
\* setLocalContent listener (breakpoint, line 401)
OnEditorUpdate ==
    /\ editor
    /\ notebook # Null
    /\ edits < MaxEdits
    /\ edits' = edits + 1
    /\ localContent' = <<EditorContent(edits + 1)>>
    /\ debounce' = TRUE
    /\ UNCHANGED <<isLocalOnly, editor, notebook, server, notebookLoading,
                   conflictWarningVisible, saves, loads, wait, failures,
                   conflicted, refused>>
    /\ UNCHANGED canvasVars

\* saveNotebook is dispatched, lines 200-211: with no notebook the loader
\* returns at once (saveNotebookSuccess with null), else the request is
\* sent
SaveNotebook(c) ==
    IF notebook = Null
    THEN /\ notebookLoading' = FALSE
         /\ UNCHANGED <<notebook, saves>>
    ELSE /\ notebookLoading' = TRUE
         /\ saves' = Append(saves, [sent |-> c])
         /\ UNCHANGED notebook

\* listener setLocalContent after its delay, lines 400-413
DebounceEnds ==
    /\ debounce
    /\ debounce' = FALSE
    /\ IF ~isLocalOnly /\ ~notebookLoading
       THEN SaveNotebook(content)
       ELSE UNCHANGED <<notebook, saves, notebookLoading>>
    /\ UNCHANGED <<isLocalOnly, editor, server, localContent,
                   conflictWarningVisible, loads, wait, edits, failures,
                   conflicted, refused>>
    /\ UNCHANGED canvasVars

\* The loader's success or failure action of request k.  When a later
\* saveNotebook was dispatched meanwhile, the loader plugin may drop the
\* outcome of the earlier one (its code is not part of the repository):
\* both are possible.
Outcomes(k) == IF k < Len(saves) THEN {"dispatched", "dropped"}
               ELSE {"dispatched"}

\* the request of save k succeeds, lines 212-217
SaveNotebookSuccess(k) ==
    /\ k \in 1..Len(saves)
    /\ server' = saves[k].sent.value
    /\ localContent' = ClearIfSent(saves[k].sent)
    /\ \E o \in Outcomes(k) :
          IF o = "dispatched"
          THEN /\ notebook' = <<[content |-> saves[k].sent.value]>>
               /\ notebookLoading' = FALSE
          ELSE UNCHANGED <<notebook, notebookLoading>>
    /\ saves' = RemoveAt(saves, k)
    /\ UNCHANGED <<isLocalOnly, editor, conflictWarningVisible, debounce,
                   loads, wait, edits, failures, conflicted, refused>>
    /\ UNCHANGED canvasVars

\* the codes a failed save request comes back with: 'conflict', and any
\* other
ErrorCodes == {"conflict", "other"}

\* a catch that takes every error for a conflict
IsConflict_anyError(code) == TRUE

\* saveNotebook, line 219: the test of the catch
IsConflict(code) == code = "conflict"

\* the request of save k fails with an error of the given code, lines
\* 218-225: on a conflict the warning is shown and the loader returns null
\* (saveNotebookSuccess with null); any other error is thrown again
\* (saveNotebookFailure)
SaveNotebookError(k, code) ==
    /\ k \in 1..Len(saves)
    /\ refused' = refused + 1
    /\ conflicted' = (conflicted \/ code = "conflict")
    /\ saves' = RemoveAt(saves, k)
    /\ IF IsConflict(code)
       THEN /\ conflictWarningVisible' = TRUE
            /\ \E o \in Outcomes(k) :
                  IF o = "dispatched"
                  THEN /\ notebook' = Null
                       /\ notebookLoading' = FALSE
                  ELSE UNCHANGED <<notebook, notebookLoading>>
            /\ UNCHANGED failures
       ELSE /\ failures' = failures + 1
            /\ notebookLoading' = FALSE
            /\ UNCHANGED <<notebook, conflictWarningVisible>>
    /\ UNCHANGED <<isLocalOnly, editor, server, localContent, debounce,
                   loads, wait, edits>>
    /\ UNCHANGED canvasVars

\* the notebook logic when it is built (reducer defaults of lines 103-164,
\* loader default of line 168), for a notebook that is not a template
NotebookBuilt ==
    /\ editor = FALSE
    /\ notebook = Null
    /\ server = 0
    /\ localContent = Null
    /\ notebookLoading = FALSE
    /\ conflictWarningVisible = FALSE
    /\ debounce = FALSE
    /\ saves = <<>>
    /\ loads = 0
    /\ wait = [state |-> "none", timer |-> "none", fnRuns |-> 0,
               uncaught |-> 0]
    /\ edits = 0
    /\ failures = 0
    /\ conflicted = FALSE
    /\ refused = 0

(***************************************************************************)
(* Recorded streams, construction, specifications                          *)
(***************************************************************************)
Streams ==
    { << DomEvent,
         CanvasEvent(1, FALSE, <<"plain">>),
         CanvasEvent(1, TRUE, <<"ref", "plain">>) >>,
      << CanvasEvent(1, FALSE, <<"ref">>),
         CanvasEvent(2, FALSE, <<"ref">>),
         CanvasEvent(1, TRUE, <<"plain">>) >>,
      << CanvasEvent(2, FALSE, <<"badref">>),
         CanvasEvent(2, TRUE, <<"bad", "plain">>),
         MetaEvent >> }

\* CanvasReplayerPlugin(events), lines 23-31 and 130: the state when the
\* constructor returns.  The maps are empty, and the preload() of line 130
\* has run up to its first await: it starts from index 0 with an empty
\* window, sets the cursor to 1, and has put the first canvas event in the
\* window.  The player starts at the beginning of the recording or at an
\* offset; in the latter case the driver fast-forwards to it in the task
\* that constructed the plugin.
\* lines 24-31 and 130: the state of an instance when
\* CanvasReplayerPlugin(evs) returns (the window and the cursor are those
\* left by the call of preload of line 130)
NewInstance(evs) ==
    LET cme == FilterPositions(evs, 1)
    IN  [canvases |-> <<>>, containers |-> <<>>, canvasEventMap |-> {},
         preloadBuffer |-> {cme[k] : k \in 1..Min(1, Len(cme))},
         nextPreloadIndex |-> <<1>>]

Init ==
    /\ events \in Streams
    /\ canvasMutationEvents = FilterPositions(events, 1)
    /\ canvases = <<>>
    /\ containers = <<>>
    /\ canvasEventMap = {}
    /\ nextPreloadIndex = <<1>>
    /\ LET q == Slice(canvasMutationEvents, 0, PRELOAD_BUFFER_SIZE)
       IN  /\ preloads = IF q = <<>> THEN {}
                         ELSE {[cur |-> Head(q), rest |-> Tail(q), from |-> 0]}
           /\ preloadBuffer = IF q = <<>> THEN {} ELSE {Head(q)}
           /\ decodeStarts =
                 [i \in 1..Len(events) |->
                    IF q # <<>> /\ i = Head(q) /\ HasRef(events[i])
                    THEN 1 ELSE 0]
    /\ applies = <<>>
    /\ pos = 1
    /\ syncTo \in {p \in 0..Len(events) :
                      Cardinality(CanvasEventsIn(1, p)) <= MaxMutations}
    /\ mutations = 0
    /\ calls = 0
    /\ missed = 0
    /\ ignored = FALSE
    /\ rejections = 0
    /\ reported = 0
    /\ resolved = {}
    /\ isLocalOnly = FALSE
    /\ NotebookBuilt
    /\ session2 = NewInstance(events)

\* Playback: the driver's calls of the handler and the resumptions of the
\* suspended calls.
Replay ==
    \/ \E p \in preloads : PreloadResolved(p)
    \/ \E p \in preloads : PreloadRejected(p)
    \/ \E source \in Sources : Deliver(source)
    \/ \E p \in 1..Len(events) : Seek(p)
    \/ \E k \in 1..Len(applies) : ApplyDrawCall(k)
    \/ \E k \in 1..Len(applies) : ApplyPublish(k)

\* The plugin as the player runs it: preload is called by the constructor
\* only.
Next ==
    \/ Replay
    \/ \E node \in Nodes, id \in RecordedIds : OnBuild(node, id)

Spec == Init /\ [][Next]_vars

\* The plugin in a session that goes on: every decode completes or fails,
\* every suspended call is resumed, the driver delivers the events up to
\* the end of the stream.
SpecLive ==
    /\ Spec
    /\ WF_vars(\E p \in preloads : PreloadResolved(p))
    /\ WF_vars(\E p \in preloads : PreloadRejected(p))
    /\ WF_vars(\E source \in Sources : Deliver(source))
    /\ WF_vars(\E k \in 1..Len(applies) : ApplyDrawCall(k))
    /\ WF_vars(\E k \in 1..Len(applies) : ApplyPublish(k))

\* preload, line 124: the await of a decode that may never complete (there
\* is no timeout).  The decode taken here is that of the first canvas
\* mutation of the stream, when it has a serialized reference.
Hung(p) ==
    /\ canvasMutationEvents # <<>>
    /\ p.cur = canvasMutationEvents[1]
    /\ HasRef(events[p.cur])
    /\ ~DecodeFails(events[p.cur])

\* The plugin in a session that goes on, with a decode that may hang: every
\* other decode completes or fails, and a suspended call whose await has
\* settled is resumed when the driver's loop returns, however often the
\* driver seeks (the continuations run before the next task).
SpecHung ==
    /\ Spec
    /\ SF_vars(\E p \in preloads : ~Hung(p) /\ PreloadResolved(p))
    /\ SF_vars(\E p \in preloads : PreloadRejected(p))
    /\ WF_vars(\E source \in Sources : Deliver(source))
    /\ SF_vars(\E k \in 1..Len(applies) : ApplyDrawCall(k))
    /\ SF_vars(\E k \in 1..Len(applies) : ApplyPublish(k))

\* The scheduler driven by a caller: preload(currentEvent) is also called
\* after the construction, with no event or with a canvas event of the
\* stream.  (The placeholders play no part in it: onBuild is left out.)
NextAdvance ==
    \/ Replay
    \/ Advance(Undefined)
    \/ \E k \in 1..Len(canvasMutationEvents) :
          Advance(<<canvasMutationEvents[k]>>)

SpecAdvance == Init /\ [][NextAdvance]_vars

\* The scheduler driven by a caller that also hands preload an event that
\* is not one of the canvas mutations of the stream (findEvent, lines
\* 17-19, compares the canvas id of the event it is given with theirs).
NextForeign ==
    \/ NextAdvance
    \/ \E i \in 1..Len(events) :
          ~isCanvasMutation(events[i]) /\ Advance(<<i>>)

SpecForeign == Init /\ [][NextForeign]_vars

\* The notebook logic of one notebook, next to a player that is left as it
\* was constructed.
InitNotebook ==
    /\ events = CHOOSE evs \in Streams : evs[1] = DomEvent
    /\ canvasMutationEvents = FilterPositions(events, 1)
    /\ canvases = <<>>
    /\ containers = <<>>
    /\ canvasEventMap = {}
    /\ nextPreloadIndex = <<1>>
    /\ preloads = {[cur |-> 2, rest |-> <<3>>, from |-> 0]}
    /\ preloadBuffer = {2}
    /\ decodeStarts = [i \in 1..Len(events) |-> 0]
    /\ applies = <<>>
    /\ pos = 1
    /\ syncTo = 0
    /\ mutations = 0
    /\ calls = 0
    /\ missed = 0
    /\ ignored = FALSE
    /\ rejections = 0
    /\ reported = 0
    /\ session2 = NewInstance(events)
    /\ resolved = {}
    /\ isLocalOnly \in BOOLEAN
    /\ NotebookBuilt

NextNotebook ==
    \/ SetEditor
    \/ LoadNotebook
    \/ LoadNotebookSuccess
    \/ OnEditorUpdate
    \/ DebounceEnds
    \/ \E k \in 1..Len(saves) : SaveNotebookSuccess(k)
    \/ \E k \in 1..Len(saves), code \in ErrorCodes :
          SaveNotebookError(k, code)
    \/ Insert
    \/ Poll
    \/ TimeoutFires

SpecNotebook == InitNotebook /\ [][NextNotebook]_vars

\* The notebook logic with its timers and its requests going on: the delay
\* of the setLocalContent listener ends, a load completes, and a save
\* request is answered (with a success when the server refuses none).
SpecNotebookLive ==
    /\ SpecNotebook
    /\ WF_vars(DebounceEnds)
    /\ WF_vars(LoadNotebookSuccess)
    /\ WF_vars(\E k \in 1..Len(saves) : SaveNotebookSuccess(k))

(***************************************************************************)
(* Properties                                                              *)
(***************************************************************************)
IsPrefix(s, t) == Len(s) <= Len(t) /\ SubSeq(t, 1, Len(s)) = s

\* apply a still has a draw call to replay on its target
HasDrawsLeft(a) ==
    \E c \in a.next..Len(events[a.ev].args) : DrawSucceeds(a, c)

\* apply k replays a draw call on its target in this step
Draws(k) ==
    /\ k <= Len(applies')
    /\ applies'[k] = [applies[k] EXCEPT !.next = @ + 1]
    /\ canvases' # canvases

\* C1: two canvas mutations on the same canvas id delivered in recorded
\* order are applied in that order: when a draw call of the later one is
\* replayed, every draw call of the earlier one has been replayed.
C1_RecordedOrder ==
    [][\A k \in 1..Len(applies) : \A j \in 1..(k - 1) :
          ( /\ Draws(k)
            /\ applies[j].id = applies[k].id
            /\ applies[j].ev < applies[k].ev )
          => ~HasDrawsLeft(applies[j])]_vars

\* C2: the preload window never holds more events than its capacity,
\* whatever preload calls overlap and whatever resets happen in between.
C2_WindowBounded == Cardinality(preloadBuffer) <= PRELOAD_BUFFER_SIZE

\* C2 witness: the window is full while several preload calls are
\* suspended and every preload call of the run has been made.
C2_WindowFull ==
    /\ Cardinality(preloadBuffer) = PRELOAD_BUFFER_SIZE
    /\ Cardinality(preloads) >= 2
    /\ calls = MaxCalls

\* the decodes of the references of event e that are under way
PrefetchInFlight(e) == \E p \in preloads : p.cur = e /\ HasRef(events[e])
ApplyDecodesInFlight(e) ==
    {k \in 1..Len(applies) :
        applies[k].ev = e /\ DecodesInApply(applies[k], applies[k].next)}
DecodesInFlight(e) ==
    (IF PrefetchInFlight(e) THEN 1 ELSE 0)
        + Cardinality(ApplyDecodesInFlight(e))

\* C3: an event with a serialized reference (one that can be decoded) is
\* resolved at most once: a resolution of it made after an earlier one (by
\* the scheduler or by an apply) has completed starts no decode of its
\* payload.  (Resolutions
\* that overlap are the case of C4.)
C3_ResolvedOnce ==
    [][\A e \in 1..Len(events) :
          ( /\ decodeStarts'[e] > decodeStarts[e]
            /\ DecodesInFlight(e) = 0
            /\ ~DecodeFails(events[e]) )
          => decodeStarts[e] = 0]_vars

\* C4: resolution requests for the same event that overlap collapse into
\* one decode: at no time are two decodes of one event under way.
C4_SingleDecodeInFlight ==
    \A e \in 1..Len(events) : DecodesInFlight(e) <= 1

\* C5: an apply that started while its event was being prefetched waits for
\* the prefetch: as long as the prefetch is under way the apply has replayed
\* nothing and decodes nothing itself.
C5_ApplyAwaitsPrefetch ==
    \A k \in 1..Len(applies) :
        (applies[k].inWindow /\ PrefetchInFlight(applies[k].ev))
        => (applies[k].next = 1 /\ ~DecodesInApply(applies[k], 1))

\* C6: a preload call made with the cursor unset and given the event at
\* index k of the canvas events hands no event of an index below k to the
\* cache.
C6_ResetCorrectness ==
    \A p \in preloads : IndexOf(p.cur) >= p.from

\* C7: a mutation whose source node is missing is skipped: the call throws
\* nothing, creates and changes no target and publishes nothing.
C7_MissingNodeSkipped ==
    [][missed' # missed =>
          /\ rejections' = rejections
          /\ canvases' = canvases
          /\ containers' = containers]_vars

\* C8: when an apply completes, its target has the size of the source node
\* measured when that apply started.
C8_SizeOfThisApply ==
    [][\A k \in 1..Len(applies) :
          applies' = RemoveAt(applies, k)
          => /\ canvases'[applies[k].id].width
                   = applies[k].source[1].clientWidth
             /\ canvases'[applies[k].id].height
                   = applies[k].source[1].clientHeight]_vars

\* C9: the content of a target accumulates: with the draw calls of
\* mutations m1.. replayed on a target, no step of the apply of a later
\* mutation m2 removes a draw call from what has been replayed.
C9_ContentAccumulates ==
    [][\A id \in DOMAIN canvases :
          (\A n \in 1..Len(canvases[id].content) :
                canvases[id].content[n][1] < pos)
          => IsPrefix(canvases[id].content, canvases'[id].content)]_vars

\* the draw calls of event i that can be replayed
RECURSIVE DrawCallsFrom(_, _)
DrawCallsFrom(i, c) ==
    IF c > Len(events[i].args) THEN <<>>
    ELSE (IF events[i].args[c] \in {"plain", "ref"} THEN << <<i, c>> >>
          ELSE <<>>) \o DrawCallsFrom(i, c + 1)

\* the content of a blank surface after the mutations of canvas id recorded
\* at stream positions i..p, in recorded order
RECURSIVE ContentFrom(_, _, _)
ContentFrom(id, i, p) ==
    IF i > p THEN <<>>
    ELSE (IF isCanvasMutation(events[i]) /\ events[i].id = id
          THEN DrawCallsFrom(i, 1) ELSE <<>>) \o ContentFrom(id, i + 1, p)

\* C10: after a seek, when the events up to the seek position have been
\* delivered with isSync (each with its source node mounted) and their
\* applies have completed, each target holds exactly the mutations of its canvas
\* recorded up to that position.
C10_ConvergesAfterSeek ==
    ( /\ syncTo >= 1 /\ pos = syncTo + 1 /\ applies = <<>>
      /\ missed = 0 /\ ~ignored )
    => \A id \in DOMAIN canvases :
          canvases[id].content = ContentFrom(id, 1, syncTo)

\* C11: the cache holds an entry for an event only if resolving the event
\* changed an argument: an event whose arguments all need no decoding has
\* no entry.
C11_OnlyChangedRetained ==
    \A e \in canvasEventMap : HasRef(events[e])

\* C11 witness: the preload of the construction has visited its whole
\* slice; an event with a reference is cached, an event without is not.
C11_PlainNotRetained ==
    /\ preloads = {} /\ rejections = 0 /\ calls = 0
    /\ canvasEventMap # {}
    /\ \E k \in 1..Len(canvasMutationEvents) :
          /\ k <= PRELOAD_BUFFER_SIZE
          /\ ~HasRef(events[canvasMutationEvents[k]])
          /\ canvasMutationEvents[k] \notin canvasEventMap

\* the preload call p ends in this step with the decode of its event failed
PreloadFails(p) ==
    /\ p \in preloads
    /\ DecodeFails(events[p.cur])
    /\ p \notin preloads'

\* C12: when the decode of a reference fails while the scheduler resolves
\* an event, the event gets no cache entry and the failure is reported to
\* the error collaborator, not left as a rejection of the preload call.
C12_DecodeFailureReported ==
    [][\A p \in preloads :
          PreloadFails(p)
          => /\ p.cur \notin canvasEventMap'
             /\ reported' = reported + 1
             /\ rejections' = rejections]_vars

\* C13: a decode failure does not stop the scheduler: the preload call goes
\* on with the remaining events of its slice.
C13_FailureNotFatal ==
    [][\A p \in preloads :
          LET q == NextToPreload(p.rest, preloadBuffer \ {p.cur},
                                 canvasEventMap)
          IN  (PreloadFails(p) /\ q # <<>>)
              => \E n \in preloads' : n.cur = Head(q)]_vars

HandlerCalled == pos' = pos + 1

\* the handler call of this step calls processMutation: an apply starts, or
\* the source node is missing
ApplyStarted ==
    \/ Len(applies') = Len(applies) + 1
    \/ missed' = missed + 1

C16_EveryMutationApplied ==
    [][(HandlerCalled /\ isCanvasMutation(events[pos])) => ApplyStarted]_vars

\* the stream positions
Positions == UNION {DOMAIN s : s \in Streams}

\* C17: the scheduler keeps driving the cache ahead of playback: every
\* canvas mutation of the stream, also those beyond the first window, is
\* eventually enqueued for resolution, unless a decode has failed.
C17_AllEventuallyEnqueued ==
    \A i \in Positions :
        <>( \/ ~isCanvasMutation(events[i])
            \/ i \in preloadBuffer
            \/ rejections > 0 )

\* the canvas elements the tree reconstruction builds
CanvasNodes ==
    {n.node : n \in {b \in BuiltNodes :
                        b.nodeName = "CANVAS" /\ b.nodeType = 1}}

C19_TargetCreatedOnce ==
    [][/\ \A id \in DOMAIN canvases :
             /\ id \in DOMAIN canvases'
             /\ canvases'[id].cloneOf = canvases[id].cloneOf
       /\ \A id \in DOMAIN canvases' :
             id \notin DOMAIN canvases
             => /\ Len(applies') = Len(applies) + 1
                /\ applies'[Len(applies')].id = id
                /\ applies'[Len(applies')].source # Null]_vars

\* C19 witness: two applies of one canvas id overlap, the later one with a
\* source node measured differently from the one the target was cloned of.
C19_OverlappingApplies ==
    \E k \in 1..Len(applies) : \E j \in (k + 1)..Len(applies) :
       /\ applies[k].id = applies[j].id
       /\ applies[j].source[1] # canvases[applies[j].id].cloneOf

\* C20: the target map and the placeholder map are independent: a step that
\* makes or attaches a placeholder changes no target and no apply, and a
\* step of an apply makes and removes no placeholder.
C20_MapsIndependent ==
    [][/\ canvases' # canvases => containers' = containers
       /\ applies' # applies => DOMAIN containers' = DOMAIN containers
       /\ (\E id \in DOMAIN containers' :
              \/ id \notin DOMAIN containers
              \/ containers'[id].parent # containers[id].parent)
          => canvases' = canvases /\ applies' = applies]_vars

\* C20 witness: an apply has drawn on the target of a canvas that has no
\* placeholder, while another canvas has a placeholder and no target.
C20_EitherOrder ==
    /\ \E id \in DOMAIN canvases :
          id \notin DOMAIN containers /\ canvases[id].content # <<>>
    /\ \E id \in DOMAIN containers : id \notin DOMAIN canvases

\* C21: the placeholder of a canvas id displays the latest frame of the
\* target of the id: when no apply of the id is under way and the id has a
\* target and a placeholder, the placeholder shows the content of the
\* target.
C21_PlaceholderShowsTarget ==
    \A id \in DOMAIN canvases \cap DOMAIN containers :
        (\A k \in 1..Len(applies) : applies[k].id # id)
        => containers[id].src = toDataURL(canvases[id])

\* C22: the canvas-event subsequence holds exactly the events of the stream
\* of type IncrementalSnapshot and source CanvasMutation, each once and in
\* the order of the stream, in every state of the session.
C22_CanvasSubsequence ==
    /\ \A k \in 1..Len(canvasMutationEvents) :
          /\ canvasMutationEvents[k] \in 1..Len(events)
          /\ events[canvasMutationEvents[k]].type = "IncrementalSnapshot"
          /\ events[canvasMutationEvents[k]].source = "CanvasMutation"
          /\ \A j \in 1..(k - 1) :
                canvasMutationEvents[j] < canvasMutationEvents[k]
    /\ \A i \in 1..Len(events) :
          (events[i].type = "IncrementalSnapshot"
             /\ events[i].source = "CanvasMutation")
          => \E k \in 1..Len(canvasMutationEvents) :
                canvasMutationEvents[k] = i

\* C22 witness: a stream that starts with an event of another source has
\* been played to its end; the subsequence holds its two canvas mutations.
C22_SubsequenceOfMixedStream ==
    /\ events[1].type = "IncrementalSnapshot"
    /\ events[1].source # "CanvasMutation"
    /\ canvasMutationEvents = <<2, 3>>
    /\ pos = Len(events) + 1

C24_StartingIndex ==
    [][\A currentEvent \in {Undefined} \cup
            {<<canvasMutationEvents[k]>> :
                 k \in 1..Len(canvasMutationEvents)} :
          Advance(currentEvent)
          => LET start == IF nextPreloadIndex # Null
                          THEN nextPreloadIndex[1]
                          ELSE IF currentEvent # Undefined
                               THEN IndexOf(currentEvent[1])
                               ELSE 0
             IN  nextPreloadIndex' = <<start + 1>>]_vars

\* C25: a call of preload considers at most (capacity - size of the window
\* at the start of the call) consecutive events of the subsequence from its
\* starting index on, and the scheduler enqueues (and decodes) an event only
\* when, at that moment, the event is neither in the window nor cached.
C25_SliceAndGuard ==
    [][\A n \in preloads' \ preloads :
          /\ n.cur \notin preloadBuffer
          /\ n.cur \notin canvasEventMap'
          /\ n.cur \in preloadBuffer'
          /\ calls' = calls + 1
             => LET start == nextPreloadIndex'[1] - 1
                    room == PRELOAD_BUFFER_SIZE - Cardinality(preloadBuffer)
                    considered ==
                        {n.cur} \cup {n.rest[j] : j \in 1..Len(n.rest)}
                IN  \A e \in considered :
                       /\ IndexOf(e) >= start
                       /\ IndexOf(e) < start + room]_vars

\* C25 witness: after a call of preload that started from 0, an event is
\* being decoded for the window while an earlier event of the subsequence
\* is cached (and is not in the window).
C25_CachedEventSkipped ==
    /\ calls >= 1
    /\ nextPreloadIndex = <<1>>
    /\ \E n \in preloads, c \in canvasEventMap :
          c < n.cur /\ c \notin preloadBuffer

\* C26: a call of preload sets the cursor to its starting index plus one
\* in the call itself, before any decode completes: a call made with the
\* cursor at c leaves it at c + 1, every call leaves a cursor set, and
\* between two calls only a reset (to null) changes the cursor; so n calls
\* in a row with no reset, the first starting from i, leave it at i + n.
C26_CursorAdvancesByOne ==
    [][/\ calls' = calls + 1
          => /\ nextPreloadIndex' # Null
             /\ nextPreloadIndex # Null
                => nextPreloadIndex' = <<nextPreloadIndex[1] + 1>>
             /\ preloadBuffer \subseteq preloadBuffer'
             /\ canvasEventMap' = canvasEventMap
       /\ calls' = calls
          => nextPreloadIndex' \in {nextPreloadIndex, Null}]_vars

\* C26 witness: the constructor's call started from 0 and two more calls
\* were made with no reset in between: the cursor is at 3.
C26_ThreeCallsInARow ==
    /\ calls = 2
    /\ nextPreloadIndex = <<3>>

\* C27: an event that left the window when its preload resolved never
\* enters the window again, whether or not its resolution left an entry in
\* the cache.
C27_NoReentry ==
    [][\A e \in resolved : e \in preloadBuffer' => e \in preloadBuffer]_vars

\* C28: a reset of the cursor made while a call of preload is suspended at
\* a decode does not cancel the decode (it completes and its result is
\* stored), but the call goes no further: from the reset on, it starts no
\* decode of another event of its slice.  (While the cursor is null, every
\* suspended call was made before the reset.)
C28_LookaheadAbandoned ==
    [][\A p \in preloads \ preloads' :
          (/\ nextPreloadIndex = Null
           /\ calls' = calls
           /\ HasRef(events[p.cur])
           /\ ~DecodeFails(events[p.cur]))
          => /\ p.cur \in canvasEventMap'
             /\ preloads' \subseteq preloads
             /\ preloadBuffer' \subseteq preloadBuffer]_vars

\* C29: a decode that never completes stalls only its own entry: every
\* other event of the window the scheduler is working on (the slice of the
\* constructor's call) is still eventually resolved, and the applies that
\* were started are eventually all completed.  (A session in which an
\* async call ended by throwing is left aside.)
C29_HungDecodeStallsOnlyItself ==
    /\ \A i \in Positions :
          <>(\/ ~isCanvasMutation(events[i])
             \/ IndexOf(i) = 0
             \/ IndexOf(i) >= PRELOAD_BUFFER_SIZE
             \/ i \in resolved
             \/ rejections > 0)
    /\ <>[](applies = <<>>)

\* C30: once the cache holds an entry for an event, the entry is never
\* removed and never replaced: in every step the cached events stay
\* cached, and no decode whose result would be stored is under way for a
\* cached event.
C30_CacheEntriesKept ==
    [][\A e \in canvasEventMap :
          /\ e \in canvasEventMap'
          /\ \A p \in preloads : p.cur # e
          /\ \A p \in preloads' : p.cur # e]_vars

\* C30 witness: two events are cached, the cursor was reset and a later
\* call of preload started again from 0, over the cached events.
C30_CachedEventsRevisited ==
    /\ Cardinality(canvasEventMap) = 2
    /\ calls >= 1
    /\ nextPreloadIndex = <<1>>

\* C31: an event added to the preload window is removed from it once its
\* decode settles, whether the decode succeeded or failed: every event of
\* the window is the event some suspended call of preload is awaiting, so
\* the window is empty when no decode is pending.
C31_WindowHoldsPendingOnly ==
    \A e \in preloadBuffer : \E p \in preloads : p.cur = e

C33_StartingIndexInRange ==
    [][/\ nextPreloadIndex' = Null \/ nextPreloadIndex'[1] >= 1
       /\ calls' = calls + 1
          => /\ nextPreloadIndex'[1] - 1 \in 0..Len(canvasMutationEvents)
             /\ \A n \in preloads' \ preloads :
                   IndexOf(n.cur) >= nextPreloadIndex'[1] - 1]_vars

\* C34: runWhenEditorIsReady is a bounded wait that fails: once the 2 s
\* timeout has fired the call has ended as failed (its promise rejected),
\* it polls no more and fn has not run and does not run; and a call that
\* has returned found the editor before the timeout, cancelled the
\* timeout and ran fn exactly once.
C34_WaitThenFail ==
    /\ wait.timer = "fired"
       => wait.state = "failed" /\ wait.fnRuns = 0
    /\ wait.state = "returned"
       => wait.timer = "cleared" /\ wait.fnRuns = 1

\* C35: a save that succeeds never discards a local edit made while it was
\* in flight: in the step in which a save request succeeds, the local
\* content is cleared when it is the very object that was sent, and is
\* left as it is otherwise.
C35_SaveKeepsLaterEdit ==
    [][(Len(saves') < Len(saves) /\ refused' = refused)
       => \E k \in 1..Len(saves) :
             /\ saves' = RemoveAt(saves, k)
             /\ server' = saves[k].sent.value
             /\ IF localContent = <<saves[k].sent>>
                THEN localContent' = Null
                ELSE localContent' = localContent]_vars

\* C35 witness: the first edit was sent and saved while the user made a
\* second one; the second edit is still the local content.
C35_LaterEditKept ==
    /\ server = 1
    /\ notebook = <<[content |-> 1]>>
    /\ localContent = <<EditorContent(2)>>
    /\ saves = <<>>
    /\ refused = 0

\* C36: for a notebook that is not local-only, every local edit is
\* eventually saved: when every save request succeeds, from some moment on
\* (the user has stopped editing) syncStatus is 'synced' and the server
\* holds the content of the last edit.
C36_EditsEventuallySaved ==
    <>[](\/ isLocalOnly
         \/ refused > 0
         \/ syncStatus = "synced" /\ (edits > 0 => server = edits))

\* C37: the conflict warning is visible exactly when a save has failed
\* with code 'conflict' since the last successful load: a save that meets
\* a conflict shows it, raises no save failure and leaves the local
\* content as it is; a save that fails with any other error is raised as
\* a failure and does not change the warning; loadNotebookSuccess hides it.
C37_ConflictWarning ==
    [][/\ conflictWarningVisible' = conflicted'
       /\ \A k \in 1..Len(saves), code \in ErrorCodes :
             SaveNotebookError(k, code)
             => IF code = "conflict"
                THEN /\ conflictWarningVisible'
                     /\ failures' = failures
                     /\ localContent' = localContent
                ELSE /\ failures' = failures + 1
                     /\ conflictWarningVisible' = conflictWarningVisible
       /\ LoadNotebookSuccess => ~conflictWarningVisible']_vars

\* C37 witness: one save failed with another error and a later one met a
\* conflict: one failure was raised, the warning is visible and the local
\* content is still there.
C37_ConflictAfterFailure ==
    /\ conflictWarningVisible
    /\ failures = 1
    /\ refused = 2
    /\ localContent # Null

====
